---- MODULE Spec2Model ----
(***************************************************************************)
(* A model of two parts of turbopack-ecmascript:                           *)
(*   manifest/loader_item.rs  ManifestLoaderItem, the chunk item that      *)
(*                            stands in for a dynamic import(), and the    *)
(*                            loader function its content() generates;     *)
(*   renamer/mod.rs           rename_module, the hygiene renaming of one   *)
(*                            parsed module.                               *)
(* Every specification below shares the variables; a specification leaves  *)
(* the variables of the other parts at their idle values.                  *)
(***************************************************************************)
EXTENDS Integers, Sequences, FiniteSets, TLC

VARIABLES
    \* the answers of the collaborators of the item under evaluation
    manifestChunks,   \* manifest.manifest_chunks(): the manifest's own chunks, in order
    chunkRefs,        \* chunk -> the output assets its ChunkData references, in order
    placeable,        \* whether manifest.asset downcasts to EcmascriptChunkPlaceable
    failing,          \* which of the awaited resolutions fail
    ret,              \* the value the last call on the item returned
    \* the build graph
    items,            \* the ManifestLoaderItem cells constructed so far
    tasks,            \* the function invocations made so far, each with its caller
    idents,           \* item -> the asset_ident() computed for it
    \* one run of the generated loader function
    code,             \* the generated loader (the holes of the template filled in)
    lpc,              \* where the promise chain stands
    loads,            \* phase -> (index -> state of that load request)
    discovered,       \* the chunk list the manifest item returned
    log,              \* the calls made to the runtime and the settlements, in order
    imported,         \* how the promise returned by the import callback settled
    result,           \* how the promise returned by the loader settled
    \* rename_module, one task per module handed to it
    cells,            \* handle -> the ParseResult in that cell
    input,            \* task -> the handle rename_module was called with
    rpc,              \* task -> where rename_module stands
    work,             \* task -> its local program and eval_context
    out,              \* task -> the handle it returned (0: none yet)
    hygieneRuns,      \* task -> hygiene passes run
    evalContexts      \* task -> EvalContexts built

itemWorld  == <<manifestChunks, chunkRefs, placeable, failing>>
callVars   == <<manifestChunks, chunkRefs, placeable, failing, ret>>
graphVars  == <<items, tasks, idents>>
loaderVars == <<code, lpc, loads, discovered, log, imported, result>>
renameVars == <<cells, input, rpc, work, out, hygieneRuns, evalContexts>>
vars == <<manifestChunks, chunkRefs, placeable, failing, ret,
          items, tasks, idents,
          code, lpc, loads, discovered, log, imported, result,
          cells, input, rpc, work, out, hygieneRuns, evalContexts>>

(***************************************************************************)
(* Bounds and universes                                                    *)
(***************************************************************************)
MaxChunks == 2        \* longest manifest_chunks() list
MaxRefs == 1          \* longest references() list of one ChunkData
MaxDiscovered == 2    \* longest chunk list returned by the manifest item
MaxTasks == 3         \* most function invocations recorded in the build graph
MaxIdents == 3        \* most identifier occurrences in a program

OutputRoot == "out"
ChunkNames == {"a", "b"}
AssetNames == {"a", "b", "c"}
\* an output asset is its path: the output root, then the path below it
ChunkAssets  == {<<OutputRoot, n>> : n \in ChunkNames}
OutputAssets == {<<OutputRoot, n>> : n \in AssetNames}
ChunkingContexts == {"ctx1", "ctx2"}
AvailabilityInfos == {"Untracked", "Root"}
Resolutions == {"chunks_data", "item_id", "dynamic_id"}
\* the chunk descriptors a manifest item may return
DiscoverableChunks == {[path |-> <<n>>] : n \in {"b", "c"}}

SeqsUpTo(S, n) == UNION {[1..k -> S] : k \in 0..n}
Range(s) == {s[i] : i \in DOMAIN s}
Ok(v) == [ok |-> TRUE, value |-> v]
Err(e) == [ok |-> FALSE, error |-> e]
None == [none |-> TRUE]
Count(s, x) == Cardinality({i \in DOMAIN s : s[i] = x})

(***************************************************************************)
(* ManifestLoaderItem: the functions of loader_item.rs                     *)
(***************************************************************************)
modifier == "loader"
manifest_loader_chunk_reference_description == "manifest loader chunk"
chunk_data_reference_description == "chunk data reference"

\* A ManifestChunkAsset: the target module and the chunking context it was
\* made for; its ident is the target's with the modifiers it carries.
ManifestChunkAsset(asset, ctx, mods) ==
    [asset |-> asset, chunking_context |-> ctx,
     ident |-> [path |-> asset, modifiers |-> mods]]
Manifests ==
    {ManifestChunkAsset("M", "ctx1", <<>>),
     ManifestChunkAsset("N", "ctx2", <<"loader">>)}

with_modifier(ident, m) == [ident EXCEPT !.modifiers = Append(@, m)]

new(manifest, chunking_context) ==
    [manifest |-> manifest, chunking_context |-> chunking_context]

manifest_chunks(manifest) == manifestChunks

\* The Chunk Data Translator: one descriptor per chunk, in order, its path
\* relative to the output root.
ChunkData_from_assets(output_root, chunks) ==
    [i \in DOMAIN chunks |->
        [path |-> IF Head(chunks[i]) = output_root THEN Tail(chunks[i]) ELSE chunks[i],
         references |-> chunkRefs[chunks[i]]]]

chunks_data(self) ==
    IF "chunks_data" \in failing THEN Err("chunks_data")
    ELSE Ok(ChunkData_from_assets(OutputRoot, manifest_chunks(self.manifest)))

SingleOutputAssetReference_new(asset, description) ==
    [asset |-> asset, description |-> description]

asset_ident_no_modifier(self) == self.manifest.ident

asset_ident(self) == with_modifier(self.manifest.ident, modifier)

\* references.extend(chunk_data.references().iter().map(..)) for each entry
RECURSIVE extend_with_chunk_data(_, _)
extend_with_chunk_data(refs, datas) ==
    IF datas = <<>> THEN refs
    ELSE extend_with_chunk_data(
            refs \o [i \in DOMAIN Head(datas).references |->
                        SingleOutputAssetReference_new(
                            Head(datas).references[i],
                            chunk_data_reference_description)],
            Tail(datas))

RECURSIVE dedup_by_asset(_, _)
dedup_by_asset(refs, kept) ==
    IF refs = <<>> THEN kept
    ELSE IF \E i \in DOMAIN kept : kept[i].asset = Head(refs).asset
         THEN dedup_by_asset(Tail(refs), kept)
         ELSE dedup_by_asset(Tail(refs), Append(kept, Head(refs)))

references_deduplicated(self) ==
    LET chunks == manifest_chunks(self.manifest)
        refs == [i \in DOMAIN chunks |->
                    SingleOutputAssetReference_new(
                        chunks[i], manifest_loader_chunk_reference_description)]
        data == chunks_data(self)
    IN  IF ~data.ok THEN data
        ELSE Ok(dedup_by_asset(extend_with_chunk_data(refs, data.value), <<>>))

references_chunks_only(self) ==
    LET chunks == manifest_chunks(self.manifest) IN
    Ok([i \in DOMAIN chunks |->
           SingleOutputAssetReference_new(
               chunks[i], manifest_loader_chunk_reference_description)])

references(self) ==
    LET chunks == manifest_chunks(self.manifest)
        refs == [i \in DOMAIN chunks |->
                    SingleOutputAssetReference_new(
                        chunks[i], manifest_loader_chunk_reference_description)]
        data == chunks_data(self)
    IN  IF ~data.ok THEN data
        ELSE Ok(extend_with_chunk_data(refs, data.value))

as_chunk_forcing_content(self, availability_info) ==
    [fn |-> "ManifestChunkItem::content", manifest |-> self.manifest,
     context |-> self.chunking_context, availability_info |-> availability_info]

\* as_chunk invokes EcmascriptChunk::new on the manifest and awaits nothing
as_chunk(self, availability_info) ==
    [fn |-> "EcmascriptChunk::new", manifest |-> self.manifest,
     context |-> self.chunking_context, availability_info |-> availability_info]

EcmascriptChunkData_new(chunk_data) == [path |-> chunk_data.path]
chunk_item_id(kind, manifest) == [of |-> kind, asset |-> manifest.asset]

content_ignoring_placeable(self) ==
    LET data == chunks_data(self) IN
    IF ~data.ok THEN data
    ELSE IF "item_id" \in failing THEN Err("item_id")
    ELSE IF "dynamic_id" \in failing THEN Err("dynamic_id")
    ELSE Ok([chunks_server_data |->
                [i \in DOMAIN data.value |-> EcmascriptChunkData_new(data.value[i])],
             item_id |-> chunk_item_id("manifest item", self.manifest),
             dynamic_id |-> chunk_item_id("module", self.manifest)])

content_ids_swapped(self) ==
    LET data == chunks_data(self) IN
    IF ~data.ok THEN data
    ELSE IF "item_id" \in failing THEN Err("item_id")
    ELSE IF ~placeable THEN Err("asset is not placeable in ecmascript chunk")
    ELSE IF "dynamic_id" \in failing THEN Err("dynamic_id")
    ELSE Ok([chunks_server_data |->
                [i \in DOMAIN data.value |-> EcmascriptChunkData_new(data.value[i])],
             item_id |-> chunk_item_id("module", self.manifest),
             dynamic_id |-> chunk_item_id("manifest item", self.manifest)])

content(self) ==
    LET data == chunks_data(self) IN
    IF ~data.ok THEN data
    ELSE IF "item_id" \in failing THEN Err("item_id")
    ELSE IF ~placeable THEN Err("asset is not placeable in ecmascript chunk")
    ELSE IF "dynamic_id" \in failing THEN Err("dynamic_id")
    ELSE Ok([chunks_server_data |->
                [i \in DOMAIN data.value |-> EcmascriptChunkData_new(data.value[i])],
             item_id |-> chunk_item_id("manifest item", self.manifest),
             dynamic_id |-> chunk_item_id("module", self.manifest)])

(***************************************************************************)
(* Idle values of each part                                                *)
(***************************************************************************)
TheManifest == ManifestChunkAsset("M", "ctx1", <<>>)
TheItem == new(TheManifest, "ctx1")

IdleWorld ==
    /\ manifestChunks = <<>>
    /\ chunkRefs = [c \in ChunkAssets |-> <<>>]
    /\ placeable = TRUE
    /\ failing = {}
IdleCall == ret = [op |-> "none", out |-> None]
IdleGraph ==
    /\ items = {}
    /\ tasks = {}
    /\ idents = <<>>
IdleLoader ==
    /\ code = None
    /\ lpc = "idle"
    /\ loads = [declared |-> <<>>, discovered |-> <<>>]
    /\ discovered = <<>>
    /\ log = <<>>
    /\ imported = "pending"
    /\ result = "pending"
IdleRename ==
    /\ cells = <<>>
    /\ input = <<>>
    /\ rpc = <<>>
    /\ work = <<>>
    /\ out = <<>>
    /\ hygieneRuns = <<>>
    /\ evalContexts = <<>>

(***************************************************************************)
(* SpecCalls: the functions of one item, over every answer of its          *)
(* collaborators                                                           *)
(***************************************************************************)
InitCalls ==
    /\ manifestChunks \in SeqsUpTo(ChunkAssets, MaxChunks)
    /\ chunkRefs \in [ChunkAssets -> SeqsUpTo(OutputAssets, MaxRefs)]
    /\ placeable \in BOOLEAN
    /\ failing \in SUBSET Resolutions
    /\ IdleCall /\ IdleGraph /\ IdleLoader /\ IdleRename

CallChunksData ==
    /\ ret' = [op |-> "chunks_data", out |-> chunks_data(TheItem)]
    /\ UNCHANGED <<itemWorld, graphVars, loaderVars, renameVars>>

CallReferences ==
    /\ ret' = [op |-> "references", out |-> references(TheItem)]
    /\ UNCHANGED <<itemWorld, graphVars, loaderVars, renameVars>>

CallContent ==
    /\ ret' = [op |-> "content", out |-> content(TheItem)]
    /\ UNCHANGED <<itemWorld, graphVars, loaderVars, renameVars>>

NextCalls == CallChunksData \/ CallReferences \/ CallContent

SpecCalls == InitCalls /\ [][NextCalls]_vars

(***************************************************************************)
(* SpecGraph: items are constructed, turned into chunks and asked for      *)
(* their ident, while consumers request manifest chunk contents            *)
(***************************************************************************)
ManifestContentCall(manifest) ==
    [fn |-> "ManifestChunkItem::content", manifest |-> manifest,
     context |-> manifest.chunking_context, availability_info |-> "Untracked"]

\* the manifests whose transitive chunk traversal has been evaluated
Evaluated ==
    {t.call.manifest : t \in {u \in tasks : u.call.fn = "ManifestChunkItem::content"}}

InitGraph ==
    /\ IdleWorld /\ IdleCall /\ IdleGraph /\ IdleLoader /\ IdleRename

New ==
    \E m \in Manifests, c \in ChunkingContexts :
        /\ items' = items \cup {new(m, c)}
        /\ UNCHANGED <<tasks, idents, callVars, loaderVars, renameVars>>

AsChunk ==
    \E self \in items, a \in AvailabilityInfos :
        /\ Cardinality(tasks) < MaxTasks
        /\ tasks' = tasks \cup {[by |-> "as_chunk", call |-> as_chunk(self, a)]}
        /\ UNCHANGED <<items, idents, callVars, loaderVars, renameVars>>

AssetIdent ==
    \E self \in items :
        /\ idents' = [i \in DOMAIN idents \cup {self} |->
                         IF i = self THEN asset_ident(self) ELSE idents[i]]
        /\ UNCHANGED <<items, tasks, callVars, loaderVars, renameVars>>

\* a consumer (the runtime load, or an eager build) asks for the manifest
\* chunk item's content
RequestManifestContent ==
    \E m \in Manifests :
        /\ Cardinality(tasks) < MaxTasks
        /\ tasks' = tasks \cup {[by |-> "consumer", call |-> ManifestContentCall(m)]}
        /\ UNCHANGED <<items, idents, callVars, loaderVars, renameVars>>

NextGraph == New \/ AsChunk \/ AssetIdent \/ RequestManifestContent

SpecGraph == InitGraph /\ [][NextGraph]_vars

(***************************************************************************)
(* Claims about the item's functions                                       *)
(***************************************************************************)
ChunkDataRefsOf(chunks) ==
    UNION {Range(chunkRefs[chunks[i]]) : i \in DOMAIN chunks}

\* C2: references() returns exactly one "manifest loader chunk" reference per
\* chunk of manifest_chunks() and one "chunk data reference" reference per
\* output asset referenced by a ChunkData entry: nothing missing, nothing else.
C2_ReferencesExactUnion ==
    (ret.op = "references" /\ ret.out.ok) =>
        Range(ret.out.value) =
            {[asset |-> c, description |-> "manifest loader chunk"] :
                c \in Range(manifestChunks)}
            \cup
            {[asset |-> a, description |-> "chunk data reference"] :
                a \in ChunkDataRefsOf(manifestChunks)}

C2_Witness ==
    /\ ret.op = "references" /\ ret.out.ok
    /\ Len(manifestChunks) = 2 /\ manifestChunks[1] # manifestChunks[2]
    /\ \A i \in DOMAIN manifestChunks : chunkRefs[manifestChunks[i]] # <<>>

\* C6: content() is an error, with no generated code, whenever the target
\* asset is not placeable; it is generated code only when the asset is
\* placeable and the chunk data and both module ids resolved.
C6_ContentNeedsPlaceable ==
    ret.op = "content" =>
        /\ ~placeable => ~ret.out.ok
        /\ (~placeable /\ failing \cap {"chunks_data", "item_id"} = {}) =>
               ret.out = Err("asset is not placeable in ecmascript chunk")
        /\ ret.out.ok => (placeable /\ failing = {})
        /\ (placeable /\ failing = {}) => ret.out.ok

C6_Witness ==
    /\ ret.op = "content" /\ ~placeable /\ failing = {}
    /\ ret.out = Err("asset is not placeable in ecmascript chunk")

\* C9 (as claimed): no asset occurs twice in the result of references().
C9_NoAssetTwice ==
    (ret.op = "references" /\ ret.out.ok) =>
        \A i, j \in DOMAIN ret.out.value :
            ret.out.value[i].asset = ret.out.value[j].asset => i = j

AssetsOf(refs) == [i \in DOMAIN refs |-> refs[i].asset]
RECURSIVE SumOver(_, _)
SumOver(chunks, a) ==
    IF chunks = <<>> THEN 0
    ELSE Count(chunkRefs[Head(chunks)], a) + SumOver(Tail(chunks), a)

\* C9 (amended): references() removes nothing: an asset occurs in the result
\* once per occurrence in manifest_chunks() plus once per occurrence in the
\* references of each ChunkData entry.
C9_OccurrencesAreSummed ==
    (ret.op = "references" /\ ret.out.ok) =>
        \A a \in OutputAssets :
            Count(AssetsOf(ret.out.value), a) =
                Count(manifestChunks, a) + SumOver(manifestChunks, a)

C9_Witness ==
    /\ ret.op = "references" /\ ret.out.ok
    /\ \E a \in OutputAssets : Count(AssetsOf(ret.out.value), a) >= 2

(***************************************************************************)
(* Claims about the build graph                                            *)
(***************************************************************************)
\* C3: constructing a loader item or turning it into a chunk never evaluates
\* the manifest's transitive chunk traversal: a traversal that has been
\* evaluated was requested by a consumer of the manifest chunk item's content.
C3_TraversalOnlyOnRequest ==
    \A m \in Evaluated :
        [by |-> "consumer", call |-> ManifestContentCall(m)] \in tasks

C3_Witness ==
    /\ \E self \in items :
          \E t \in tasks : t.by = "as_chunk" /\ t.call.manifest = self.manifest
                             /\ self.manifest \notin Evaluated
    /\ Evaluated # {}

\* C8: the loader's asset_ident is the manifest's ident with the modifier
\* "loader" added: equal for any two loader items of the same manifest, and
\* different from the manifest's own ident.
C8_IdentIsManifestPlusLoader ==
    \A i \in DOMAIN idents :
        /\ idents[i].path = i.manifest.ident.path
        /\ idents[i].modifiers = i.manifest.ident.modifiers \o <<"loader">>
        /\ idents[i] # i.manifest.ident
        /\ \A j \in DOMAIN idents : i.manifest = j.manifest => idents[i] = idents[j]

C8_Witness ==
    \E i, j \in DOMAIN idents :
        /\ i # j /\ i.manifest = j.manifest
        /\ i.manifest.ident.modifiers # <<>>

(***************************************************************************)
(* SpecLoader: one run of the function the generated module exports        *)
(*                                                                         *)
(*   (__turbopack_import__) =>                                             *)
(*     Promise.all(CHUNK_LIST.map((chunk) => __turbopack_load__(chunk)))   *)
(*       .then(() => __turbopack_require__(ITEM_ID))                       *)
(*       .then((chunks) => Promise.all(chunks.map(__turbopack_load__)))    *)
(*       .then(() => __turbopack_import__(DYNAMIC_ID))                     *)
(***************************************************************************)
InitLoader ==
    /\ manifestChunks \in SeqsUpTo(ChunkAssets, MaxChunks)
    /\ chunkRefs = [c \in ChunkAssets |-> <<>>]
    /\ placeable = TRUE
    /\ failing = {}
    /\ IdleCall /\ IdleGraph /\ IdleRename
    /\ code = content(TheItem).value
    /\ lpc = "idle"
    /\ loads = [declared |-> <<>>, discovered |-> <<>>]
    /\ discovered = <<>>
    /\ log = <<>>
    /\ imported = "pending"
    /\ result = "pending"

\* list.map((chunk) => __turbopack_load__(chunk)): every load is requested,
\* in order, before anything else runs
LoadEvents(list, chunks) ==
    [i \in DOMAIN chunks |-> [ev |-> "load", list |-> list, idx |-> i, arg |-> chunks[i]]]

PromiseAnyFulfilled(states) ==
    states = <<>> \/ \E i \in DOMAIN states : states[i] = "loaded"

\* Promise.all(..) is fulfilled once every promise of the list is
PromiseAllFulfilled(states) == \A i \in DOMAIN states : states[i] = "loaded"

ChunksOf(list) == IF list = "declared" THEN code.chunks_server_data ELSE discovered
WaitingOn(list) == IF list = "declared" THEN "loading_declared" ELSE "loading_discovered"

Invoke ==
    /\ lpc = "idle"
    /\ loads' = [loads EXCEPT !.declared = [i \in DOMAIN code.chunks_server_data |-> "pending"]]
    /\ log' = log \o LoadEvents("declared", code.chunks_server_data)
    /\ lpc' = "loading_declared"
    /\ UNCHANGED <<code, discovered, imported, result, callVars, graphVars, renameVars>>

LoadSettles_failure_ignored ==
    \E list \in {"declared", "discovered"}, outcome \in {"loaded", "load_failed"} :
      \E i \in DOMAIN loads[list] :
        /\ loads[list][i] = "pending"
        /\ loads' = [loads EXCEPT ![list][i] = "loaded"]
        /\ log' = Append(log, [ev |-> outcome, list |-> list, idx |-> i,
                               arg |-> ChunksOf(list)[i]])
        /\ UNCHANGED <<lpc, result>>
        /\ UNCHANGED <<code, discovered, imported, callVars, graphVars, renameVars>>

\* a load request settles; the first failure rejects Promise.all, and with it
\* the whole chain, while the other requests of the list go on
LoadSettles ==
    \E list \in {"declared", "discovered"}, outcome \in {"loaded", "load_failed"} :
      \E i \in DOMAIN loads[list] :
        /\ loads[list][i] = "pending"
        /\ loads' = [loads EXCEPT ![list][i] = outcome]
        /\ log' = Append(log, [ev |-> outcome, list |-> list, idx |-> i,
                               arg |-> ChunksOf(list)[i]])
        /\ IF outcome = "load_failed" /\ lpc = WaitingOn(list)
           THEN lpc' = "rejected" /\ result' = "rejected"
           ELSE UNCHANGED <<lpc, result>>
        /\ UNCHANGED <<code, discovered, imported, callVars, graphVars, renameVars>>

\* .then(() => __turbopack_require__(ITEM_ID)): the manifest item runs and
\* yields a chunk list, or fails
Require ==
    /\ lpc = "loading_declared"
    /\ PromiseAllFulfilled(loads.declared)
    /\ \/ \E d \in SeqsUpTo(DiscoverableChunks, MaxDiscovered) :
             /\ log' = Append(log, [ev |-> "require", arg |-> code.item_id])
             /\ discovered' = d /\ lpc' = "required" /\ result' = result
       \/ /\ log' = log \o <<[ev |-> "require", arg |-> code.item_id],
                              [ev |-> "require_failed", arg |-> code.item_id]>>
          /\ discovered' = discovered /\ lpc' = "rejected" /\ result' = "rejected"
    /\ UNCHANGED <<code, loads, imported, callVars, graphVars, renameVars>>

\* .then((chunks) => Promise.all(chunks.map(__turbopack_load__)))
LoadDiscovered ==
    /\ lpc = "required"
    /\ loads' = [loads EXCEPT !.discovered = [i \in DOMAIN discovered |-> "pending"]]
    /\ log' = log \o LoadEvents("discovered", discovered)
    /\ lpc' = "loading_discovered"
    /\ UNCHANGED <<code, discovered, imported, result, callVars, graphVars, renameVars>>

\* .then(() => __turbopack_import__(DYNAMIC_ID))
Import ==
    /\ lpc = "loading_discovered"
    /\ PromiseAllFulfilled(loads.discovered)
    /\ log' = Append(log, [ev |-> "import", arg |-> code.dynamic_id])
    /\ lpc' = "importing"
    /\ UNCHANGED <<code, loads, discovered, imported, result, callVars, graphVars, renameVars>>

\* the loader's promise takes the outcome of the promise import returned
ImportSettles_result_dropped ==
    \E outcome \in {"module", "rejected"} :
        /\ lpc = "importing"
        /\ imported' = outcome
        /\ result' = "undefined"
        /\ lpc' = "fulfilled"
        /\ UNCHANGED <<code, loads, discovered, log, callVars, graphVars, renameVars>>

ImportSettles ==
    \E outcome \in {"module", "rejected"} :
        /\ lpc = "importing"
        /\ imported' = outcome
        /\ result' = outcome
        /\ lpc' = IF outcome = "module" THEN "fulfilled" ELSE "rejected"
        /\ UNCHANGED <<code, loads, discovered, log, callVars, graphVars, renameVars>>

NextLoader ==
    Invoke \/ LoadSettles \/ Require \/ LoadDiscovered \/ Import \/ ImportSettles

SpecLoader == InitLoader /\ [][NextLoader]_vars

\* the runtime calls the loader, runs every callback that is ready, and
\* every request made of it settles
SpecLoaderFair == InitLoader /\ [][NextLoader]_vars /\ WF_vars(NextLoader)

(***************************************************************************)
(* Claims about the generated loader                                       *)
(***************************************************************************)
\* the phase an event of the log belongs to
Phase(e) ==
    CASE e.ev \in {"require", "require_failed"} -> 2
      [] e.ev = "import" -> 4
      [] OTHER -> IF e.list = "declared" THEN 1 ELSE 3

\* before position j every chunk of the list was requested and then loaded
AllLoadedBefore(list, chunks, j) ==
    \A k \in DOMAIN chunks :
        \E a, b \in 1..(j - 1) :
            /\ a < b
            /\ log[a] = [ev |-> "load", list |-> list, idx |-> k, arg |-> chunks[k]]
            /\ log[b] = [ev |-> "loaded", list |-> list, idx |-> k, arg |-> chunks[k]]

\* C1: the loader's four phases happen in order: every CHUNK_LIST load is
\* requested and completes, then the manifest item is required, then every
\* discovered chunk is requested and completes, then import is called; no
\* event of a later phase precedes an event of an earlier one.
C1_PhasesInOrder ==
    /\ \A i, j \in DOMAIN log : i < j => Phase(log[i]) <= Phase(log[j])
    /\ \A j \in DOMAIN log :
          /\ Phase(log[j]) >= 2 =>
                AllLoadedBefore("declared", code.chunks_server_data, j)
          /\ Phase(log[j]) >= 3 =>
                \E r \in 1..(j - 1) : log[r] = [ev |-> "require", arg |-> code.item_id]
          /\ Phase(log[j]) = 4 =>
                /\ AllLoadedBefore("discovered", discovered, j)
                /\ log[j].arg = code.dynamic_id

C1_Witness ==
    /\ lpc = "fulfilled" /\ result = "module"
    /\ Len(code.chunks_server_data) = 2
    /\ Len(discovered) = 2

EventsOf(ev) == {j \in DOMAIN log : log[j].ev = ev}
SomethingFailed == EventsOf("load_failed") # {} \/ EventsOf("require_failed") # {}

\* C11: when no load fails and requiring the manifest item succeeds, the
\* loader eventually calls import with the target module id; it calls import
\* at most once, and its result is the result of that call.
C11_ImportCalledOnceAndReturned ==
    /\ [](/\ Cardinality(EventsOf("import")) <= 1
          /\ \A j \in EventsOf("import") :
                log[j].arg = [of |-> "module", asset |-> TheManifest.asset]
          /\ EventsOf("import") # {} => result = imported)
    /\ <>(SomethingFailed \/ EventsOf("import") # {})

C11_Witness ==
    /\ ~SomethingFailed
    /\ Cardinality(EventsOf("import")) = 1
    /\ imported = "module" /\ result = "module"
    /\ Len(code.chunks_server_data) >= 1 /\ Len(discovered) >= 1

LoadRequests(list) ==
    SelectSeq(log, LAMBDA e : e.ev = "load" /\ e.list = list)
RequestedChunks(list) ==
    [i \in DOMAIN LoadRequests(list) |-> LoadRequests(list)[i].arg]

\* C15: the loader requests a load only for the entries of CHUNK_LIST, which
\* are the descriptors of chunks_data(), one per entry and in order, and for
\* the entries of the list the manifest item returned; only the manifest item
\* id is required and only the target module id is passed to import.
C15_OnlyListedChunksAndIds ==
    LET data == chunks_data(TheItem).value IN
    /\ Len(code.chunks_server_data) = Len(data)
    /\ \A i \in DOMAIN data : code.chunks_server_data[i].path = data[i].path
    /\ lpc # "idle" => RequestedChunks("declared") = code.chunks_server_data
    /\ RequestedChunks("discovered") # <<>> => RequestedChunks("discovered") = discovered
    /\ \A j \in DOMAIN log :
          /\ log[j].ev \in {"load", "loaded", "load_failed", "require",
                             "require_failed", "import"}
          /\ log[j].ev = "require" =>
                log[j].arg = [of |-> "manifest item", asset |-> TheManifest.asset]
          /\ log[j].ev = "import" =>
                log[j].arg = [of |-> "module", asset |-> TheManifest.asset]

C15_Witness ==
    /\ EventsOf("import") # {}
    /\ Len(manifestChunks) = 2 /\ manifestChunks[1] # manifestChunks[2]
    /\ Len(discovered) = 2 /\ discovered[1] # discovered[2]

\* C16: a failure stops the later phases: after a failed CHUNK_LIST load the
\* manifest item is never required; after a failed require or a failed load
\* of a discovered chunk import is never called; the loader's result is then
\* a failure.
C16_FailureStopsLaterPhases ==
    /\ (\E j \in EventsOf("load_failed") : log[j].list = "declared") =>
          (EventsOf("require") = {} /\ EventsOf("import") = {})
    /\ (EventsOf("require_failed") # {}
          \/ \E j \in EventsOf("load_failed") : log[j].list = "discovered") =>
          EventsOf("import") = {}
    /\ SomethingFailed => (result = "rejected" /\ lpc = "rejected")

C16_Witness ==
    /\ \E j \in EventsOf("load_failed") : log[j].list = "discovered"
    /\ \E j \in EventsOf("loaded") : log[j].list = "discovered"
    /\ result = "rejected"

(***************************************************************************)
(* The renamer: renamer/mod.rs                                             *)
(*                                                                         *)
(* A program is the sequence of its identifier occurrences, in source      *)
(* order.  An occurrence has a surface name (sym), the syntax context the  *)
(* resolver gave it (ctxt), the scope it stands in and whether it declares *)
(* its binding.  A binding's identity is the pair (sym, ctxt).  A surface  *)
(* name is a sequence: a base name, then the digits appended to it.        *)
(***************************************************************************)
unresolved_mark == "U"      \* the context of identifiers the resolver left free
top_level_mark == "T"       \* the context of module-level bindings
\* "X": module-level bindings a transform added; "N": bindings of the
\* nested function scope
BindingCtxts == {"T", "X", "N"}
Scopes == {"top", "fn"}
ScopeOfCtxt(c) == IF c = "N" THEN "fn" ELSE "top"
Syms == {<<"foo">>}

Occurrences ==
    {[sym |-> s, ctxt |-> c, scope |-> ScopeOfCtxt(c), decl |-> TRUE] :
        s \in Syms, c \in BindingCtxts}
    \cup
    {o \in [sym : Syms, ctxt : BindingCtxts \cup {unresolved_mark},
            scope : Scopes, decl : {FALSE}] :
        o.ctxt = "N" => o.scope = "fn"}

IdOf(o) == <<o.sym, o.ctxt>>
DeclIds(p) == {IdOf(p[i]) : i \in {k \in DOMAIN p : p[k].decl}}
UsedIds(p) == {IdOf(p[i]) : i \in DOMAIN p}

\* what the resolver can have produced: a reference that is not free has its
\* declaration in the program, and a binding is declared once
WellFormed(p) ==
    /\ \A i \in DOMAIN p : p[i].ctxt # unresolved_mark => IdOf(p[i]) \in DeclIds(p)
    /\ \A i, j \in DOMAIN p : (p[i].decl /\ p[j].decl /\ IdOf(p[i]) = IdOf(p[j])) => i = j

Programs == {p \in SeqsUpTo(Occurrences, MaxIdents) : WellFormed(p)}

\* EvalContext::new(&program, unresolved_mark, top_level_mark, ..): the marks
\* and what the analysis of the program yields
EvalContext_new(program, um, tm) ==
    [unresolved_mark |-> um, top_level_mark |-> tm,
     bindings |-> DeclIds(program),
     free |-> {program[i].sym : i \in {k \in DOMAIN program : program[k].ctxt = um}}]

ParseOk(p) ==
    [tag |-> "Ok", program |-> p, comments |-> "comments",
     eval_context |-> EvalContext_new(p, unresolved_mark, top_level_mark),
     globals |-> "globals", source_map |-> "source_map"]
ParseFailures == {[tag |-> "Unparseable"], [tag |-> "NotFound"]}
ParseResults == ParseFailures \cup {ParseOk(p) : p \in Programs}

(***************************************************************************)
(* hygiene(): swc's pass, which gives bindings of equal surface name and   *)
(* different context different surface names, one program at a time        *)
(***************************************************************************)
\* the surface names of identifiers used but not declared in the program
get_unresolved(p) == {id[1] : id \in UsedIds(p) \ DeclIds(p)}

\* the identifiers used or declared in a scope or in a scope inside it
scope_all(p, s) ==
    IF s = "top" THEN UsedIds(p)
    ELSE {IdOf(p[i]) : i \in {k \in DOMAIN p : p[k].scope = s}}

\* the bindings a scope declares, in source order
scope_queue(p, s) ==
    LET ds == SelectSeq(p, LAMBDA o : o.decl /\ o.scope = s)
    IN  [i \in DOMAIN ds |-> IdOf(ds[i])]

new_name_for(id, n) == IF n = 0 THEN id[1] ELSE Append(id[1], n)

can_rename(id, sym, to, all) ==
    \A left \in DOMAIN to : (to[left] = sym /\ left # id) => left \notin all

RECURSIVE pick_name(_, _, _, _, _)
pick_name(id, n, to, all, preserved) ==
    LET sym == new_name_for(id, n) IN
    IF sym \notin preserved /\ can_rename(id, sym, to, all) THEN sym
    ELSE pick_name(id, n + 1, to, all, preserved)

RECURSIVE rename_one_scope(_, _, _, _)
rename_one_scope(queue, to, all, preserved) ==
    IF queue = <<>> THEN to
    ELSE LET id == Head(queue) IN
         IF id \in DOMAIN to THEN rename_one_scope(Tail(queue), to, all, preserved)
         ELSE rename_one_scope(
                  Tail(queue),
                  [x \in DOMAIN to \cup {id} |->
                      IF x = id THEN pick_name(id, 0, to, all, preserved) ELSE to[x]],
                  all, preserved)

\* the module scope first, then the scopes inside it, which see its choices
rename_map(p) ==
    LET preserved == get_unresolved(p)
        top == rename_one_scope(scope_queue(p, "top"), <<>>, scope_all(p, "top"), preserved)
    IN  rename_one_scope(scope_queue(p, "fn"), top, scope_all(p, "fn"), preserved)

hygiene_by_surface_name(p) ==
    LET to == rename_map(p) IN
    [i \in DOMAIN p |->
        LET hits == {id \in DOMAIN to : id[1] = p[i].sym /\ to[id] # id[1]} IN
        IF hits # {} THEN [p[i] EXCEPT !.sym = to[CHOOSE id \in hits : TRUE]]
        ELSE p[i]]

hygiene(p) ==
    LET to == rename_map(p) IN
    [i \in DOMAIN p |->
        IF IdOf(p[i]) \in DOMAIN to THEN [p[i] EXCEPT !.sym = to[IdOf(p[i])]]
        ELSE p[i]]

(***************************************************************************)
(* rename_module, run as one task per module; tasks run concurrently       *)
(***************************************************************************)
Tasks == DOMAIN input

InitTasks(handles) ==
    /\ input = handles
    /\ rpc = [t \in DOMAIN handles |-> "start"]
    /\ work = [t \in DOMAIN handles |-> None]
    /\ out = [t \in DOMAIN handles |-> 0]
    /\ hygieneRuns = [t \in DOMAIN handles |-> 0]
    /\ evalContexts = [t \in DOMAIN handles |-> 0]

\* match &*module.await?: an Ok module is cloned for rewriting
MatchOk(t) ==
    /\ rpc[t] = "start"
    /\ cells[input[t]].tag = "Ok"
    /\ work' = [work EXCEPT ![t] = [program |-> cells[input[t]].program]]
    /\ rpc' = [rpc EXCEPT ![t] = "hygiene"]
    /\ UNCHANGED <<cells, input, out, hygieneRuns, evalContexts, callVars, graphVars, loaderVars>>

rename_failed_recelled(t) ==
    /\ cells' = Append(cells, cells[input[t]])
    /\ out' = [out EXCEPT ![t] = Len(cells) + 1]

\* _ => Ok(module): the handle itself is returned
rename_failed(t) ==
    /\ cells' = cells
    /\ out' = [out EXCEPT ![t] = input[t]]

MatchOther(t) ==
    /\ rpc[t] = "start"
    /\ cells[input[t]].tag # "Ok"
    /\ rename_failed(t)
    /\ rpc' = [rpc EXCEPT ![t] = "done"]
    /\ UNCHANGED <<input, work, hygieneRuns, evalContexts, callVars, graphVars, loaderVars>>

Hygiene_in_place(t) ==
    /\ rpc[t] = "hygiene"
    /\ work' = [work EXCEPT ![t] = [program |-> hygiene(work[t].program)]]
    /\ cells' = [cells EXCEPT ![input[t]].program = hygiene(work[t].program)]
    /\ hygieneRuns' = [hygieneRuns EXCEPT ![t] = @ + 1]
    /\ rpc' = [rpc EXCEPT ![t] = "eval_context"]
    /\ UNCHANGED <<input, out, evalContexts, callVars, graphVars, loaderVars>>

\* program.visit_mut_with(&mut hygiene())
Hygiene(t) ==
    /\ rpc[t] = "hygiene"
    /\ work' = [work EXCEPT ![t] = [program |-> hygiene(work[t].program)]]
    /\ hygieneRuns' = [hygieneRuns EXCEPT ![t] = @ + 1]
    /\ rpc' = [rpc EXCEPT ![t] = "eval_context"]
    /\ UNCHANGED <<cells, input, out, evalContexts, callVars, graphVars, loaderVars>>

NewEvalContext_of_input(t) ==
    /\ rpc[t] = "eval_context"
    /\ work' = [work EXCEPT ![t] =
                   [program |-> work[t].program,
                    eval_context |-> cells[input[t]].eval_context]]
    /\ evalContexts' = [evalContexts EXCEPT ![t] = @ + 1]
    /\ rpc' = [rpc EXCEPT ![t] = "cell"]
    /\ UNCHANGED <<cells, input, out, hygieneRuns, callVars, graphVars, loaderVars>>

\* EvalContext::new(&program, eval_context.unresolved_mark,
\*                  eval_context.top_level_mark, false, None)
NewEvalContext(t) ==
    /\ rpc[t] = "eval_context"
    /\ work' = [work EXCEPT ![t] =
                   [program |-> work[t].program,
                    eval_context |->
                        EvalContext_new(work[t].program,
                                        cells[input[t]].eval_context.unresolved_mark,
                                        cells[input[t]].eval_context.top_level_mark)]]
    /\ evalContexts' = [evalContexts EXCEPT ![t] = @ + 1]
    /\ rpc' = [rpc EXCEPT ![t] = "cell"]
    /\ UNCHANGED <<cells, input, out, hygieneRuns, callVars, graphVars, loaderVars>>

\* Ok(ParseResult::Ok { .. }.cell())
Cell(t) ==
    /\ rpc[t] = "cell"
    /\ cells' = Append(cells,
                       [tag |-> "Ok", program |-> work[t].program,
                        comments |-> cells[input[t]].comments,
                        eval_context |-> work[t].eval_context,
                        globals |-> cells[input[t]].globals,
                        source_map |-> cells[input[t]].source_map])
    /\ out' = [out EXCEPT ![t] = Len(cells) + 1]
    /\ rpc' = [rpc EXCEPT ![t] = "done"]
    /\ UNCHANGED <<input, work, hygieneRuns, evalContexts, callVars, graphVars, loaderVars>>

NextRename ==
    \/ \E t \in Tasks : MatchOk(t)
    \/ \E t \in Tasks : MatchOther(t)
    \/ \E t \in Tasks : Hygiene(t)
    \/ \E t \in Tasks : NewEvalContext(t)
    \/ \E t \in Tasks : Cell(t)

\* SpecRename: one module, any program within the bounds or a failed parse
InitRename ==
    /\ IdleWorld /\ IdleCall /\ IdleGraph /\ IdleLoader
    /\ cells \in [1..1 -> ParseResults]
    /\ InitTasks(<<1>>)

SpecRename == InitRename /\ [][NextRename]_vars

\* the declarations an occurrence resolves to by name: those of its own scope
\* first, else those of the module scope; none when the name is free
SurfaceBinding(p, i) ==
    LET named(sc) == {j \in DOMAIN p : p[j].decl /\ p[j].sym = p[i].sym /\ p[j].scope = sc}
    IN  IF named(p[i].scope) # {} THEN named(p[i].scope) ELSE named("top")

\* the declarations an occurrence resolves to by binding identity
IdBinding(p, i) == {j \in DOMAIN p : p[j].decl /\ IdOf(p[j]) = IdOf(p[i])}

\* what a fresh parse yields: names and identities agree, and no binding has
\* a context added by a transform
FreshPrograms ==
    {p \in Programs :
        \A i \in DOMAIN p : p[i].ctxt # "X" /\ SurfaceBinding(p, i) = IdBinding(p, i)}

\* SpecMerge: the two modules of one merge group, renamed concurrently
InitMerge ==
    /\ IdleWorld /\ IdleCall /\ IdleGraph /\ IdleLoader
    /\ cells \in [1..2 -> ParseFailures \cup {ParseOk(p) : p \in FreshPrograms}]
    /\ InitTasks(<<1, 2>>)

SpecMerge == InitMerge /\ [][NextRename]_vars

(***************************************************************************)
(* Claims about the renamer                                                *)
(***************************************************************************)
Renamed(t) == rpc[t] = "done" /\ cells[input[t]].tag = "Ok"
ProgramIn(t) == cells[input[t]].program
ProgramOut(t) == cells[out[t]].program
TopLevelDecls(p) == {i \in DOMAIN p : p[i].decl /\ p[i].scope = "top"}

\* C4 (as claimed): two top-level bindings of the two programs of a merge
\* group that have the same surface name before renaming have different
\* surface names after rename_module has run on both programs.
C4_MergedTopLevelNamesDiffer ==
    \A t1, t2 \in Tasks :
        (t1 # t2 /\ Renamed(t1) /\ Renamed(t2)) =>
            \A i \in TopLevelDecls(ProgramIn(t1)), j \in TopLevelDecls(ProgramIn(t2)) :
                ProgramIn(t1)[i].sym = ProgramIn(t2)[j].sym =>
                    ProgramOut(t1)[i].sym # ProgramOut(t2)[j].sym

\* C5: rename_module changes the surface name of no free identifier, every
\* reference resolves by name in the output to the binding it was bound to in
\* the input, and the set of free names is the same before and after.
C5_RenamingIsConservative ==
    \A t \in Tasks :
        Renamed(t) =>
            LET p == ProgramIn(t)
                q == ProgramOut(t)
            IN  /\ DOMAIN q = DOMAIN p
                /\ \A i \in DOMAIN p :
                      /\ q[i].ctxt = p[i].ctxt /\ q[i].scope = p[i].scope
                      /\ q[i].decl = p[i].decl
                      /\ p[i].ctxt = unresolved_mark => q[i].sym = p[i].sym
                      /\ SurfaceBinding(q, i) = IdBinding(p, i)
                /\ {q[i].sym : i \in {k \in DOMAIN q : SurfaceBinding(q, k) = {}}}
                     = {p[i].sym : i \in {k \in DOMAIN p : p[k].ctxt = unresolved_mark}}

C5_Witness ==
    \E t \in Tasks :
        /\ Renamed(t)
        /\ \E i, j, k \in DOMAIN ProgramIn(t) :
              /\ ProgramIn(t)[i].ctxt = unresolved_mark
              /\ ProgramOut(t)[j].sym # ProgramIn(t)[j].sym
              /\ ~ProgramIn(t)[k].decl /\ ProgramIn(t)[k].ctxt # unresolved_mark

\* C7: for an input that is not ParseResult::Ok, rename_module returns the
\* handle it was given, makes no new cell, runs no hygiene pass and builds no
\* eval context.
C7_FailurePassesThrough ==
    /\ \A t \in Tasks :
          (rpc[t] = "done" /\ cells[input[t]].tag # "Ok") =>
              /\ out[t] = input[t]
              /\ hygieneRuns[t] = 0
              /\ evalContexts[t] = 0
    /\ Len(cells) = Len(input) + Cardinality({t \in Tasks : Renamed(t)})

C7_Witness ==
    \E t \in Tasks :
        rpc[t] = "done" /\ cells[input[t]].tag = "Unparseable" /\ out[t] = input[t]

\* C12 (as claimed): when a program with a top-level foo and a nested foo
\* that shadows it is merged with a program that declares a top-level foo,
\* then after renaming the nested foo has the surface name it had, the two
\* top-level foo have different surface names, and every reference of both
\* programs resolves by name to the binding it was bound to.
C12_ShadowedFooMergedWithFoo ==
    \A t1, t2 \in Tasks :
        (t1 # t2 /\ Renamed(t1) /\ Renamed(t2)) =>
            LET p1 == ProgramIn(t1)
                p2 == ProgramIn(t2)
                q1 == ProgramOut(t1)
                q2 == ProgramOut(t2)
            IN  \A i \in TopLevelDecls(p1), j \in TopLevelDecls(p2) :
                \A k \in {n \in DOMAIN p1 : p1[n].decl /\ p1[n].scope = "fn"} :
                    (p1[i].sym = p1[k].sym /\ p1[i].sym = p2[j].sym) =>
                        /\ q1[k].sym = p1[k].sym
                        /\ q1[i].sym # q2[j].sym
                        /\ \A r \in DOMAIN p1 : SurfaceBinding(q1, r) = IdBinding(p1, r)
                        /\ \A r \in DOMAIN p2 : SurfaceBinding(q2, r) = IdBinding(p2, r)

C14_InputIsNeverModified ==
    /\ [][\A h \in DOMAIN cells : h \in DOMAIN cells' /\ cells'[h] = cells[h]]_vars
    /\ [](\A t \in Tasks :
            Renamed(t) =>
                /\ out[t] # input[t]
                /\ cells[out[t]].comments = cells[input[t]].comments
                /\ cells[out[t]].globals = cells[input[t]].globals
                /\ cells[out[t]].source_map = cells[input[t]].source_map)

C14_Witness ==
    \E t \in Tasks :
        /\ Renamed(t)
        /\ out[t] # input[t]
        /\ ProgramOut(t) # ProgramIn(t)
        /\ cells[input[t]].eval_context.bindings = DeclIds(ProgramIn(t))

\* C10 (as claimed): the top-level names of the programs of a merge group
\* are chosen one program at a time, each program seeing the names chosen
\* for the others: never two programs in the pass at once, and no top-level
\* name chosen for two programs.
C10_TopLevelNamingSerialized ==
    /\ Cardinality({t \in Tasks : rpc[t] = "hygiene"
                                  /\ TopLevelDecls(work[t].program) # {}}) <= 1
    /\ \A t1, t2 \in Tasks :
          (t1 # t2 /\ Renamed(t1) /\ Renamed(t2)) =>
              {ProgramOut(t1)[i].sym : i \in TopLevelDecls(ProgramOut(t1))}
              \cap {ProgramOut(t2)[j].sym : j \in TopLevelDecls(ProgramOut(t2))} = {}

====
